---- MODULE Spec2Model ----
(***************************************************************************)
(* A model of stock_bot.py: the hardware-address normaliser, the vendor    *)
(* lookup, the extraction-and-reconciliation pipeline and the message      *)
(* handler that appends rows to the ledger and reports the outcome.        *)
(*                                                                         *)
(* Text is modelled as a sequence of one-character strings, so that the    *)
(* case folding, filtering, splitting and substring tests of the program   *)
(* are computed and not assumed.  A Python value is a record               *)
(* [k |-> kind, s |-> text]: a str, None, or a number (its digits).        *)
(***************************************************************************)
EXTENDS Integers, Sequences, FiniteSets, TLC

VARIABLES
    mac_string, mac_result,                     \* format_mac_address harness
    lookup_mac, lookup_token, lookup_resp, lookup_result, \* get_vendor_from_mac harness
    an_image, an_outcome, an_cands, an_vendor, an_token, an_result, \* analyze_image_with_openai harness
    \* on_message: the events that arrive and, for each of them,
    live,          \* the events of this behaviour
    msg,           \* the message: author, channel, text, attachments
    pc,            \* where its handler stands
    idx,           \* the attachment the loop of line 399 is at
    entries,       \* all_processed_items_from_message
    any_image,     \* any_image_found_and_processed
    had_errors,    \* overall_processing_had_errors
    saves,         \* successful_saves
    entry_idx,     \* the entry the loop of line 461 is at
    reply,         \* the content of the bot's reply to the message
    summary,       \* summary_parts
    reactions,     \* the reactions added to the message
    status,        \* the overall status reported
    sheet,         \* the rows of the ledger, shared by all events
    \* what the handler did, recorded for the properties
    downloads,     \* the attachments download_image was called for
    calls_made,         \* the inference calls_made made
    lookups_made,       \* the calls_made of get_vendor_from_mac
    attempts,      \* the append attempts, in order
    facts,         \* what happened to each image attachment
    full_summary_message, posted,   \* the summary composed and the reply posted (520-526)
    \* the event loop that runs the handlers of the events as tasks
    running,       \* the event whose task holds the loop (0: none does)
    inflight,      \* for each event, the inference call it awaits
    started        \* the events in the order their handlers started

macVars == <<mac_string, mac_result>>
lookupVars == <<lookup_mac, lookup_token, lookup_resp, lookup_result>>
analyzeVars == <<an_image, an_outcome, an_cands, an_vendor, an_token, an_result>>
handlerVars == <<live, msg, pc, idx, entries, any_image, had_errors, saves, entry_idx,
                 reply, summary, reactions, status, sheet,
                 downloads, calls_made, lookups_made, attempts, facts>>
replyVars == <<full_summary_message, posted>>
functionVars == <<macVars, lookupVars, analyzeVars, replyVars>>
loopVars == <<running, inflight, started>>
vars == <<functionVars, handlerVars, loopVars>>

----------------------------------------------------------------------------
(* Text *)

UpperChars ==
    <<"A","B","C","D","E","F","G","H","I","J","K","L","M",
      "N","O","P","Q","R","S","T","U","V","W","X","Y","Z">>
LowerChars ==
    <<"a","b","c","d","e","f","g","h","i","j","k","l","m",
      "n","o","p","q","r","s","t","u","v","w","x","y","z">>
DigitChars == {"0","1","2","3","4","5","6","7","8","9"}
HexChars == DigitChars \cup {"A","B","C","D","E","F"}
SpaceChars == {" "}

LowerSet == {LowerChars[i] : i \in 1..Len(LowerChars)}
UpperSet == {UpperChars[i] : i \in 1..Len(UpperChars)}
IsLowerChar(c) == c \in LowerSet
IsUpperChar(c) == c \in UpperSet

\* str.upper / str.lower on one character
ToUpper == [c \in LowerSet |-> UpperChars[CHOOSE i \in 1..Len(LowerChars) : LowerChars[i] = c]]
ToLower == [c \in UpperSet |-> LowerChars[CHOOSE i \in 1..Len(UpperChars) : UpperChars[i] = c]]
UpperChar(c) == IF IsLowerChar(c) THEN ToUpper[c] ELSE c
LowerChar(c) == IF IsUpperChar(c) THEN ToLower[c] ELSE c

\* Op applied to the value of e, with e evaluated once
Bind(e, Op(_)) == CHOOSE r \in {Op(v) : v \in {e}} : TRUE

Upper(s) == Bind(s, LAMBDA v : [i \in 1..Len(v) |-> UpperChar(v[i])])
Lower(s) == Bind(s, LAMBDA v : [i \in 1..Len(v) |-> LowerChar(v[i])])

\* str.isalnum on one character
IsAlnum(c) == c \in DigitChars \/ IsLowerChar(c) \/ IsUpperChar(c)

RECURSIVE FilterAlnum(_)
FilterAlnum(s) ==
    IF s = <<>> THEN <<>>
    ELSE IF IsAlnum(Head(s)) THEN <<Head(s)>> \o FilterAlnum(Tail(s))
    ELSE FilterAlnum(Tail(s))

\* sub occurs in s starting at position i
OccursAt(sub, s, i) ==
    /\ i >= 1
    /\ i + Len(sub) - 1 <= Len(s)
    /\ \A j \in 1..Len(sub) : s[i + j - 1] = sub[j]

\* Python's `sub in s`
Contains(s, sub) == \E i \in 1..(Len(s) + 1) : OccursAt(sub, s, i)

\* Python's s.split(sep)[0]: the text before the first occurrence of sep
SplitFirst(s, sep) ==
    IF Contains(s, sep)
    THEN LET i == CHOOSE i \in 1..(Len(s) + 1) :
                     /\ OccursAt(sep, s, i)
                     /\ \A j \in 1..(i - 1) : ~OccursAt(sep, s, j)
         IN  SubSeq(s, 1, i - 1)
    ELSE s

\* str.strip()
RECURSIVE LStrip(_)
LStrip(s) ==
    IF s # <<>> /\ Head(s) \in SpaceChars THEN LStrip(Tail(s)) ELSE s
RECURSIVE RStrip(_)
RStrip(s) ==
    IF s # <<>> /\ s[Len(s)] \in SpaceChars
    THEN RStrip(SubSeq(s, 1, Len(s) - 1)) ELSE s
Strip(s) == RStrip(LStrip(s))

\* Python's s[:n]
Prefix(s, n) == SubSeq(s, 1, IF Len(s) < n THEN Len(s) ELSE n)

----------------------------------------------------------------------------
(* Python values *)

PyStr(s) == [k |-> "str", s |-> s]
PyNone == [k |-> "none", s |-> <<>>]
PyNum(d) == [k |-> "num", s |-> d]

\* bool(v): the empty str, None and 0 are false
Truthy(v) ==
    CASE v.k = "str" -> v.s # <<>>
      [] v.k = "none" -> FALSE
      [] OTHER -> v.s # <<"0">>

TxtNA == <<"N","/","A">>
TxtNaLower == <<"n","/","a">>
TxtUnknown == <<"u","n","k","n","o","w","n">>
NA == PyStr(TxtNA)

\* a call that returns val, or raises
Ret(v) == [raised |-> FALSE, val |-> v]
Raise == [raised |-> TRUE, val |-> PyNone]

----------------------------------------------------------------------------
(* format_mac_address *)

MacLen == 12

\* int(text, 16) does not raise ValueError.  text holds alphanumeric upper-case
\* characters only: it parses when it is all hexadecimal digits, or when it is
\* the base prefix 0X followed by at least one hexadecimal digit.
AllHex(s) == s # <<>> /\ \A i \in 1..Len(s) : s[i] \in HexChars
IntBase16Parses(s) ==
    \/ AllHex(s)
    \/ /\ Len(s) >= 3
       /\ s[1] = "0" /\ s[2] = "X"
       /\ AllHex(SubSeq(s, 3, Len(s)))

\* ":".join(cleaned[i:i+2] for i in range(0, 12, 2))
JoinPairs(s) ==
    Bind(s, LAMBDA v :
        [i \in 1..(Len(v) + (Len(v) \div 2) - 1) |->
            IF i % 3 = 0 THEN ":" ELSE v[i - (i \div 3)]])

format_mac_address(mac_string_) ==
    IF ~Truthy(mac_string_) THEN Ret(NA)
    ELSE IF mac_string_.k # "str" THEN Raise       \* .lower() of a non-str
    ELSE IF Lower(mac_string_.s) = TxtNaLower THEN Ret(NA)
    ELSE Bind(Upper(FilterAlnum(mac_string_.s)), LAMBDA cleaned_mac :
             IF Len(cleaned_mac) = MacLen
             THEN IF IntBase16Parses(cleaned_mac)
                  THEN Ret(PyStr(JoinPairs(cleaned_mac)))
                  ELSE Ret(NA)
             ELSE Ret(NA))

\* the form ^[0-9A-F]{2}(:[0-9A-F]{2}){5}$
IsSixPairHex(t) ==
    /\ Len(t) = 17
    /\ \A i \in 1..17 : IF i % 3 = 0 THEN t[i] = ":" ELSE t[i] \in HexChars

(* Inputs of the normaliser: templates, and one edit of a template *)
TxtMacRaw == <<"A","A","B","B","C","C","D","D","E","E","F","F">>
TxtMacDigits == <<"0","1","2","3","4","5","6","7","8","9","a","b">>
TxtMacZeros == <<"0","0","1","2","3","4","5","6","7","8","9","0">>
TxtMacColon == <<"A","A",":","B","B",":","C","C",":","D","D",":","E","E",":","F","F">>
MacTemplates == {TxtMacRaw, TxtMacDigits, TxtMacZeros}
MacEditChars == {"G", "g", "X", "x", "f", "0", ":", "-", " ", "."}

ReplaceAt(s, p, c) == [i \in 1..Len(s) |-> IF i = p THEN c ELSE s[i]]
InsertAt(s, p, c) == SubSeq(s, 1, p - 1) \o <<c>> \o SubSeq(s, p, Len(s))
RemoveAt(s, p) == SubSeq(s, 1, p - 1) \o SubSeq(s, p + 1, Len(s))
\* a delimiter after every pair but the last
Delimited(s, d) ==
    [i \in 1..(Len(s) + (Len(s) \div 2) - 1) |->
        IF i % 3 = 0 THEN d ELSE s[i - (i \div 3)]]

MacEdits(t) ==
    {t}
    \cup {ReplaceAt(t, p, c) : p \in 1..Len(t), c \in MacEditChars}
    \cup {InsertAt(t, p, c) : p \in 1..(Len(t) + 1), c \in MacEditChars}
    \cup {RemoveAt(t, p) : p \in 1..Len(t)}

MacTexts ==
    {<<>>, TxtNA, TxtNaLower, TxtUnknown}
    \cup UNION {MacEdits(t) : t \in MacTemplates}
    \cup UNION {{Delimited(u, d) : d \in {":", "-", "."}} :
                    u \in UNION {{t} \cup {ReplaceAt(t, p, c) :
                                     p \in 1..2, c \in {"G", "x", "X"}} :
                                 t \in MacTemplates}}

MacInputs == {PyNone} \cup {PyStr(t) : t \in MacTexts}

InitMac ==
    /\ mac_string \in MacInputs
    /\ mac_result = [state |-> "pending", val |-> PyNone]

IdleMac ==
    /\ mac_string = PyNone
    /\ mac_result = [state |-> "idle", val |-> PyNone]

FormatMacCall ==
    /\ mac_result.state = "pending"
    /\ mac_result' =
           Bind(format_mac_address(mac_string), LAMBDA r :
                [state |-> IF r.raised THEN "raised" ELSE "returned",
                 val |-> r.val])
    /\ UNCHANGED mac_string

----------------------------------------------------------------------------
(* get_vendor_from_mac *)

TxtSepCo == <<" ","C","O",".">>
TxtSepLtd == <<" ","L","T","D">>
TxtSepInc == <<" ","I","N","C">>
TxtSepLlc == <<" ","L","L","C">>
TxtSepGmbh == <<" ","G","M","B","H">>
TxtYEALINK == <<"Y","E","A","L","I","N","K">>
TxtYealink == <<"Y","e","a","l","i","n","k">>
TxtNotFoundLower == <<"n","o","t"," ","f","o","u","n","d">>
TxtErrors == <<"e","r","r","o","r","s">>

\* vendor_name.split(" CO.")[0].split(" LTD")[0].split(" INC")[0]
\*            .split(" LLC")[0].split(" GMBH")[0].strip()
CleanVendorName(vendor_name) ==
    Bind(SplitFirst(vendor_name, TxtSepCo), LAMBDA s1 :
    Bind(SplitFirst(s1, TxtSepLtd), LAMBDA s2 :
    Bind(SplitFirst(s2, TxtSepInc), LAMBDA s3 :
    Bind(SplitFirst(s3, TxtSepLlc), LAMBDA s4 :
    Bind(SplitFirst(s4, TxtSepGmbh), LAMBDA s5 : Strip(s5))))))

(* The answer of the lookup service to requests.get:                        *)
(*   net    "ok", or the exception the call raised: "timeout",             *)
(*          "request_error" (any other RequestException), "other_error"    *)
(*   status the HTTP status of an answer                                    *)
(*   body   what response.json() finds:                                     *)
(*          "not_json"   not JSON (val: the text)                           *)
(*          "org"        a mapping whose "data" mapping has                *)
(*                       "organization_name" (val: its value)               *)
(*          "dict_other" a mapping without that nested field                *)
(*          "string"     a JSON string (val)                                *)
(*          "json_other" any other JSON value (a list, a number, null)      *)
NoBody == [kind |-> "json_other", val |-> PyNone]
NetFailure(n) == [net |-> n, status |-> 0, body |-> NoBody]
HttpAnswer(st, kind, val) ==
    [net |-> "ok", status |-> st, body |-> [kind |-> kind, val |-> val]]

\* what the 200 branch returns (lines 109-137)
VendorFromBody(body) ==
    CASE body.kind = "org" ->
            IF body.val.k = "str"
            THEN Bind(CleanVendorName(body.val.s), LAMBDA vendor_name_cleaned :
                     IF Contains(Upper(vendor_name_cleaned), TxtYEALINK)
                     THEN PyStr(TxtYealink)
                     ELSE PyStr(vendor_name_cleaned))
            ELSE PyNone                          \* .split of a non-str: e_parse
      [] body.kind = "string" ->
            IF /\ ~Contains(Lower(body.val.s), TxtNotFoundLower)
               /\ ~Contains(Lower(body.val.s), TxtErrors)
            THEN body.val
            ELSE PyNone
      [] OTHER -> PyNone      \* no expected field, or json.JSONDecodeError

\* get_vendor_from_mac without the test of the status: any answer is read
\* as if it were a 200 answer
get_vendor_from_mac_any_status(mac_address_str, token, resp) ==
    IF mac_address_str = <<>> \/ Lower(mac_address_str) = TxtNaLower
    THEN [ret |-> PyNone, requests |-> 0]
    ELSE IF ~token
    THEN [ret |-> PyNone, requests |-> 0]
    ELSE IF resp.net # "ok"
    THEN [ret |-> PyNone, requests |-> 1]
    ELSE [ret |-> VendorFromBody(resp.body), requests |-> 1]

\* returns [ret: the vendor or None, requests: the requests made]
get_vendor_from_mac(mac_address_str, token, resp) ==
    IF mac_address_str = <<>> \/ Lower(mac_address_str) = TxtNaLower
    THEN [ret |-> PyNone, requests |-> 0]
    ELSE IF ~token
    THEN [ret |-> PyNone, requests |-> 0]
    ELSE IF resp.net # "ok"
    THEN [ret |-> PyNone, requests |-> 1]
    ELSE IF resp.status = 200
    THEN [ret |-> VendorFromBody(resp.body), requests |-> 1]
    ELSE [ret |-> PyNone, requests |-> 1]

TxtAcmeInc == <<"A","c","m","e"," ","N","e","t","w","o","r","k","s"," ","I","n","c">>
TxtAcme == <<"A","c","m","e"," ","N","e","t","w","o","r","k","s">>
TxtAcmeIncUpper == <<"A","C","M","E"," ","N","E","T","W","O","R","K","S"," ","I","N","C">>
TxtAcmeUpper == <<"A","C","M","E"," ","N","E","T","W","O","R","K","S">>
TxtYealinkCo == <<"Y","E","A","L","I","N","K"," ","N","E","T","W","O","R","K"," ","C","O",".",",","L","T","D">>
TxtAcmeGmbh == <<"A","C","M","E"," ","G","M","B","H">>
TxtOnlyInc == <<" ","I","N","C">>
TxtNotFound == <<"N","o","t"," ","F","o","u","n","d">>
TxtDell == <<"D","e","l","l">>

OrgNames ==
    {TxtAcmeInc, TxtAcmeIncUpper, TxtAcme, TxtYealinkCo, TxtAcmeGmbh,
     TxtOnlyInc, TxtDell, <<>>}
OrgValues == {PyStr(n) : n \in OrgNames} \cup {PyNone, PyNum(<<"5">>)}
BodyTexts == {TxtNotFound, TxtAcme, TxtErrors, <<>>}
Bodies ==
    {[kind |-> "org", val |-> v] : v \in OrgValues}
    \cup {[kind |-> "string", val |-> PyStr(t)] : t \in BodyTexts}
    \cup {[kind |-> "not_json", val |-> PyStr(t)] : t \in BodyTexts}
    \cup {[kind |-> "dict_other", val |-> PyNone], NoBody}
Statuses == {200, 401, 404, 500}
VendorResponses ==
    {NetFailure(n) : n \in {"timeout", "request_error", "other_error"}}
    \cup {[net |-> "ok", status |-> st, body |-> b] : st \in Statuses, b \in Bodies}

LookupAddresses == {TxtNA, TxtNaLower, <<>>, TxtMacColon}

InitLookup ==
    /\ lookup_mac \in LookupAddresses
    /\ lookup_token \in BOOLEAN
    /\ lookup_resp \in VendorResponses
    /\ lookup_result = [state |-> "pending", ret |-> PyNone, requests |-> 0]

IdleLookup ==
    /\ lookup_mac = <<>>
    /\ lookup_token = FALSE
    /\ lookup_resp = NetFailure("timeout")
    /\ lookup_result = [state |-> "idle", ret |-> PyNone, requests |-> 0]

LookupCall ==
    /\ lookup_result.state = "pending"
    /\ lookup_result' =
           Bind(get_vendor_from_mac(lookup_mac, lookup_token, lookup_resp),
                LAMBDA r : [state |-> "returned", ret |-> r.ret,
                            requests |-> r.requests])
    /\ UNCHANGED <<lookup_mac, lookup_token, lookup_resp>>

----------------------------------------------------------------------------
(* The inference text and its decoding (analyze_image_with_openai, 255-283) *)

(* The text the inference call returns is a sequence of characters over    *)
(*   [ ] { } ,   the JSON delimiters                                        *)
(*   1           a JSON number                                              *)
(*   x           prose, never part of a JSON value                          *)
(*   a b         the member list of an object: {a} is the object whose      *)
(*               members are the fields of candidate a, {} the empty one    *)
MemberNames == {"a", "b"}

\* a decoded JSON value
JNum == [t |-> "num", els |-> <<>>, name |-> ""]
JDict(n) == [t |-> "dict", els |-> <<>>, name |-> n]
JList(es) == [t |-> "list", els |-> es, name |-> ""]
ParseFail == [ok |-> FALSE, v |-> JNum, next |-> 0]
ParseOk(v, n) == [ok |-> TRUE, v |-> v, next |-> n]

RECURSIVE ParseValue(_, _)
RECURSIVE ParseElems(_, _, _)
\* the JSON value that starts at position i of s, and where it ends
ParseValue(s, i) ==
    IF i > Len(s) THEN ParseFail
    ELSE CASE s[i] = "1" -> ParseOk(JNum, i + 1)
           [] s[i] = "{" ->
                IF i + 1 <= Len(s) /\ s[i + 1] = "}"
                THEN ParseOk(JDict(""), i + 2)
                ELSE IF /\ i + 2 <= Len(s)
                        /\ s[i + 1] \in MemberNames
                        /\ s[i + 2] = "}"
                THEN ParseOk(JDict(s[i + 1]), i + 3)
                ELSE ParseFail
           [] s[i] = "[" ->
                IF i + 1 <= Len(s) /\ s[i + 1] = "]"
                THEN ParseOk(JList(<<>>), i + 2)
                ELSE ParseElems(s, i + 1, <<>>)
           [] OTHER -> ParseFail
ParseElems(s, i, acc) ==
    LET r == ParseValue(s, i)
    IN  IF ~r.ok THEN ParseFail
        ELSE IF r.next <= Len(s) /\ s[r.next] = ","
        THEN ParseElems(s, r.next + 1, Append(acc, r.v))
        ELSE IF r.next <= Len(s) /\ s[r.next] = "]"
        THEN ParseOk(JList(Append(acc, r.v)), r.next + 1)
        ELSE ParseFail

\* json.loads(s): the whole of s is one JSON value, or JSONDecodeError
JsonLoads(s) ==
    LET r == ParseValue(s, 1)
    IN  IF r.ok /\ r.next = Len(s) + 1 THEN [ok |-> TRUE, v |-> r.v]
        ELSE [ok |-> FALSE, v |-> JNum]

\* str.find / str.rfind: a 0-based index, or -1
Find(s, c) ==
    IF \E i \in 1..Len(s) : s[i] = c
    THEN (CHOOSE i \in 1..Len(s) : s[i] = c /\ \A j \in 1..(i - 1) : s[j] # c) - 1
    ELSE -1
RFind(s, c) ==
    IF \E i \in 1..Len(s) : s[i] = c
    THEN (CHOOSE i \in 1..Len(s) :
              s[i] = c /\ \A j \in (i + 1)..Len(s) : s[j] # c) - 1
    ELSE -1
\* s[lo:hi] for indices that are not negative
Slice(s, lo, hi) == SubSeq(s, lo + 1, IF hi > Len(s) THEN Len(s) ELSE hi)

(* What lines 255-283 end with:                                             *)
(*   "items"        list_of_item_data is set (els)                          *)
(*   "format_error" the early return of line 283                            *)
(*   "json_error"   json.loads raised JSONDecodeError                       *)
(*   "type_error"   the TypeError of line 270                               *)
ExtractOutcome(k, es) == [kind |-> k, els |-> es]
ExtractItems(content) ==
    LET array_start == Find(content, "[")
        array_end == RFind(content, "]") + 1
    IN  IF array_start # -1 /\ array_end # -1
        THEN LET parsed_json == JsonLoads(Slice(content, array_start, array_end))
             IN  IF ~parsed_json.ok THEN ExtractOutcome("json_error", <<>>)
                 ELSE IF parsed_json.v.t = "list"
                 THEN ExtractOutcome("items", parsed_json.v.els)
                 ELSE IF parsed_json.v.t = "dict"
                 THEN ExtractOutcome("items", <<parsed_json.v>>)
                 ELSE ExtractOutcome("type_error", <<>>)
        ELSE LET json_start_obj == Find(content, "{")
                 json_end_obj == RFind(content, "}") + 1
             IN  IF json_start_obj # -1 /\ json_end_obj # -1
                 THEN LET single_item_data ==
                              JsonLoads(Slice(content, json_start_obj, json_end_obj))
                      IN  IF ~single_item_data.ok
                          THEN ExtractOutcome("json_error", <<>>)
                          ELSE ExtractOutcome("items", <<single_item_data.v>>)
                 ELSE ExtractOutcome("format_error", <<>>)

----------------------------------------------------------------------------
(* Reconciliation of one candidate (analyze_image_with_openai, 286-328) *)

\* a key the decoded mapping does not have
Absent == [k |-> "absent", s |-> <<>>]
\* item_data.get(key, "N/A")
Get(v) == IF v.k = "absent" THEN NA ELSE v

Candidate(mk, md, sn, pn, dp, vp, mac) ==
    [make |-> mk, model |-> md, serial_number |-> sn, part_number |-> pn,
     dp_n |-> dp, vpn |-> vp, mac_address |-> mac]
EmptyCandidate == Candidate(Absent, Absent, Absent, Absent, Absent, Absent, Absent)

\* v == "N/A" or not v or v.lower() == "unknown": "true", "false" or "raise"
Missing(v) ==
    IF v = NA \/ ~Truthy(v) THEN "true"
    ELSE IF v.k # "str" THEN "raise"
    ELSE IF Lower(v.s) = TxtUnknown THEN "true" ELSE "false"

\* dp_n != "N/A" and dp_n
Present(v) == v # NA /\ Truthy(v)

\* v if v and v.lower() != "n/a" and v.lower() != "unknown" else "N/A"
Normalised(v) ==
    IF ~Truthy(v) THEN Ret(NA)
    ELSE IF v.k # "str" THEN Raise
    ELSE IF Lower(v.s) = TxtNaLower \/ Lower(v.s) = TxtUnknown THEN Ret(NA)
    ELSE Ret(v)

\* lines 300-305: the make after the vendor lookup
MakeAfterLookup(item_make, vendor_from_mac) ==
    IF Truthy(vendor_from_mac) THEN vendor_from_mac ELSE item_make

\* lines 308-310: the Dell fallback
MakeAfterDpn(final_make, dp_n) ==
    IF Missing(final_make) = "true" /\ Present(dp_n)
    THEN PyStr(TxtDell) ELSE final_make

\* the model fallbacks without the test of the make: dp_n stands in for the
\* model of any device
ModelAfterFallback_any_make(item_model, final_make, vpn, dp_n) ==
    IF Missing(item_model) = "true"
    THEN IF Present(vpn) THEN vpn
         ELSE IF Present(dp_n) THEN dp_n
         ELSE item_model
    ELSE item_model

\* lines 313-319: the model fallbacks
ModelAfterFallback(item_model, final_make, vpn, dp_n) ==
    IF Missing(item_model) = "true"
    THEN IF Present(vpn) THEN vpn
         ELSE IF final_make = PyStr(TxtDell) /\ Present(dp_n) THEN dp_n
         ELSE item_model
    ELSE item_model

\* lines 321-327: the record of one item
ItemInfo(mk, md, sn, pn, mac) ==
    [make |-> mk, model |-> md, serial_number |-> sn, part_number |-> pn,
     mac_address |-> mac, has_raw |-> FALSE, raw_response |-> <<>>]

ReconcileRaise(n) == [raised |-> TRUE, item |-> ItemInfo(NA, NA, NA, NA, NA), lookups |-> n]

\* one pass of the loop body: the item, or the exception that leaves the loop;
\* lookups counts the calls of get_vendor_from_mac
Reconcile(item_data, resp, token) ==
    LET item_make == Get(item_data.make)
        item_model == Get(item_data.model)
        serial_number == Get(item_data.serial_number)
        part_number == Get(item_data.part_number)
        dp_n == Get(item_data.dp_n)
        vpn == Get(item_data.vpn)
    IN  Bind(format_mac_address(Get(item_data.mac_address)), LAMBDA fm :
        IF fm.raised \/ Missing(item_make) = "raise" THEN ReconcileRaise(0)
        ELSE
        LET mac_address == fm.val
            lookup == Missing(item_make) = "true" /\ mac_address # NA
            n == IF lookup THEN 1 ELSE 0
        IN  Bind(IF lookup
                 THEN get_vendor_from_mac(mac_address.s, token, resp).ret
                 ELSE PyNone, LAMBDA vendor_from_mac :
            Bind(MakeAfterLookup(item_make, vendor_from_mac), LAMBDA make1 :
            IF Missing(make1) = "raise" \/ Missing(item_model) = "raise"
            THEN ReconcileRaise(n)
            ELSE
            Bind(MakeAfterDpn(make1, dp_n), LAMBDA final_make :
            Bind(ModelAfterFallback(item_model, final_make, vpn, dp_n),
                 LAMBDA final_model :
            Bind(<<Normalised(final_make), Normalised(final_model)>>, LAMBDA nm :
                IF nm[1].raised \/ nm[2].raised THEN ReconcileRaise(n)
                ELSE [raised |-> FALSE,
                      item |-> ItemInfo(nm[1].val, nm[2].val, serial_number,
                                        part_number, mac_address),
                      lookups |-> n]))))))

----------------------------------------------------------------------------
(* analyze_image_with_openai (204-348) *)

TxtFormatError == <<"N","/","A"," ","(","O","p","e","n","A","I"," ","J","S","O","N"," ","F","o","r","m","a","t"," ","E","r","r","o","r",")">>
TxtNoItems == <<"N","/","A"," ","(","N","o"," ","I","t","e","m","s"," ","P","a","r","s","e","d",")">>
TxtJsonError == <<"N","/","A"," ","(","J","S","O","N"," ","E","r","r","o","r"," ","f","o","r"," ","i","m","a","g","e",")">>
TxtParsingError == <<"N","/","A"," ","(","P","a","r","s","i","n","g"," ","E","r","r","o","r"," ","f","o","r"," ","i","m","a","g","e",")">>
TxtApiErrorPrefix == <<"O","p","e","n","A","I"," ","A","P","I"," ","E","r","r","o","r",":"," ","S","t","a","t","u","s"," ">>
TxtApiCallErrPrefix == <<"N","/","A"," ","(","A","P","I"," ","C","a","l","l"," ","E","r","r","o","r"," ","f","o","r"," ","i","m","a","g","e",":"," ">>
TxtDash == <<" ","-"," ">>
TxtClose == <<")">>
\* str(e) of an exception raised while the items are built
TxtAttrError == <<"A","t","t","r","i","b","u","t","e","E","r","r","o","r">>

RawSnippetLen == 500
ErrSnippetLen == 100

\* the records the function returns in place of items
ErrorWithRaw(make_text, raw) ==
    [make |-> PyStr(make_text), model |-> NA, serial_number |-> NA,
     part_number |-> NA, mac_address |-> NA,
     has_raw |-> TRUE, raw_response |-> Prefix(raw, RawSnippetLen)]
ErrorNoRaw(make_text) ==
    [make |-> PyStr(make_text), model |-> NA, serial_number |-> NA,
     part_number |-> NA, mac_address |-> NA,
     has_raw |-> FALSE, raw_response |-> <<>>]

(* What the inference call does:                                            *)
(*   "text"             returns the text `content`                          *)
(*   "null_content"     returns a message whose content is None             *)
(*   "status_error"     raises an openai.APIError that carries status_code  *)
(*                      (APIStatusError: authentication, rate limit)        *)
(*   "connection_error" raises an openai.APIError that carries none         *)
(*                      (APIConnectionError, APITimeoutError)               *)
(*   "other_exception"  raises an exception that is no openai.APIError      *)
InferenceText(c) == [kind |-> "text", content |-> c, status |-> <<>>, msg |-> <<>>]
InferenceRaise(k, st, m) == [kind |-> k, content |-> <<>>, status |-> st, msg |-> m]

CandidateOf(cands, name) == IF name \in MemberNames THEN cands[name] ELSE EmptyCandidate
VendorOf(vendor, name) == IF name \in MemberNames THEN vendor[name] ELSE NetFailure("timeout")

\* the loop of lines 286-328 over list_of_item_data; item_data.get of an
\* element that is no mapping raises
RECURSIVE ReconcileAll(_, _, _, _)
ReconcileAll(els, cands, vendor, token) ==
    IF els = <<>> THEN [raised |-> FALSE, items |-> <<>>, lookups |-> 0]
    ELSE IF Head(els).t # "dict"
    THEN [raised |-> TRUE, items |-> <<>>, lookups |-> 0]
    ELSE Bind(Reconcile(CandidateOf(cands, Head(els).name),
                        VendorOf(vendor, Head(els).name), token), LAMBDA r :
             IF r.raised
             THEN [raised |-> TRUE, items |-> <<>>, lookups |-> r.lookups]
             ELSE Bind(ReconcileAll(Tail(els), cands, vendor, token), LAMBDA rest :
                  [raised |-> rest.raised,
                   items |-> IF rest.raised THEN <<>>
                             ELSE <<r.item>> \o rest.items,
                   lookups |-> r.lookups + rest.lookups]))

AnalyzeResult(raised, ret, items, calls, lookups) ==
    [raised |-> raised, ret |-> ret, items |-> items,
     calls |-> calls, lookups |-> lookups]

\* lines 250-340: the text is there
AnalyzeContent(content, cands, vendor, token) ==
    Bind(ExtractItems(content), LAMBDA x :
        CASE x.kind = "format_error" ->
                AnalyzeResult(FALSE, "list",
                    <<ErrorWithRaw(TxtFormatError, content)>>, 1, 0)
          [] x.kind = "json_error" ->
                AnalyzeResult(FALSE, "list",
                    <<ErrorWithRaw(TxtJsonError, content)>>, 1, 0)
          [] x.kind = "type_error" ->
                AnalyzeResult(FALSE, "list",
                    <<ErrorWithRaw(TxtParsingError, TxtAttrError)>>, 1, 0)
          [] OTHER ->
                Bind(ReconcileAll(x.els, cands, vendor, token), LAMBDA r :
                    IF r.raised
                    THEN AnalyzeResult(FALSE, "list",
                             <<ErrorWithRaw(TxtParsingError, TxtAttrError)>>,
                             1, r.lookups)
                    ELSE IF r.items = <<>> /\ content # <<>> /\ x.els = <<>>
                    THEN AnalyzeResult(FALSE, "list",
                             <<ErrorWithRaw(TxtNoItems, content)>>, 1, r.lookups)
                    ELSE AnalyzeResult(FALSE, "list", r.items, 1, r.lookups)))

\* lines 342-345: the handler of openai.APIError reads e.status_code, which an
\* APIError without that attribute answers with AttributeError; an exception
\* raised inside an except clause leaves the function
ApiErrorHandler(outcome) ==
    IF outcome.kind = "status_error"
    THEN AnalyzeResult(FALSE, "list",
             <<ErrorNoRaw(TxtApiErrorPrefix \o outcome.status \o TxtDash
                          \o outcome.msg)>>, 1, 0)
    ELSE AnalyzeResult(TRUE, "none", <<>>, 1, 0)

\* [raised, ret ("none" or "list"), items, calls (inference calls made),
\*  lookups (calls of get_vendor_from_mac)]
analyze_image_with_openai(image_bytes, outcome, cands, vendor, token) ==
    IF ~image_bytes THEN AnalyzeResult(FALSE, "none", <<>>, 0, 0)
    ELSE CASE outcome.kind = "text" ->
                AnalyzeContent(outcome.content, cands, vendor, token)
           [] outcome.kind = "null_content" ->        \* None.find raises
                AnalyzeResult(FALSE, "list",
                    <<ErrorWithRaw(TxtParsingError, TxtAttrError)>>, 1, 0)
           [] outcome.kind \in {"status_error", "connection_error"} ->
                ApiErrorHandler(outcome)
           [] OTHER ->
                AnalyzeResult(FALSE, "list",
                    <<ErrorNoRaw(TxtApiCallErrPrefix
                                 \o Prefix(outcome.msg, ErrSnippetLen)
                                 \o TxtClose)>>, 1, 0)

(* Inputs of the analysis *)

TxtMac0x == <<"0","x","1","2","3","4","5","6","7","8","9","0">>
TxtMacShort == <<"A","A","B","B","C","C">>
TxtSN1 == <<"S","N","1">>
TxtDpn == <<"0","1","6","P","D","3">>
TxtVpn == <<"K","M","5","2","2","1","W","B","K","B","-","I","N","T">>
TxtUnknownCap == <<"U","n","k","n","o","w","n">>
TxtModelX == <<"G","X","P","2","1","3","0">>
TxtRateLimit == <<"r","a","t","e"," ","l","i","m","i","t","e","d">>
TxtBoom == <<"b","o","o","m">>
Txt429 == <<"4","2","9">>
Txt401 == <<"4","0","1">>
Five == PyNum(<<"5">>)

\* the candidate of the end-to-end scenario
ScenarioCandidate ==
    Candidate(NA, NA, PyStr(TxtSN1), PyStr(<<>>), PyStr(TxtDpn), PyStr(TxtVpn),
              PyStr(TxtMacRaw))
\* make absent, a concrete address, dp_n present, no vpn
DpnCandidate ==
    Candidate(Absent, Absent, PyStr(TxtSN1), NA, PyStr(TxtDpn), Absent,
              PyStr(TxtMacColon))
\* everything printed on the label
LabelledCandidate ==
    Candidate(PyStr(TxtYealink), PyStr(TxtModelX), PyStr(TxtSN1), NA, NA, NA,
              PyStr(TxtMacDigits))
\* a model that is no string
NumberCandidate ==
    Candidate(PyStr(TxtDell), Five, PyNone, Absent, Absent, Absent, Absent)
NarrowCandidates ==
    {ScenarioCandidate, DpnCandidate, LabelledCandidate, NumberCandidate}

MakeValues ==
    {Absent, NA, PyStr(TxtNaLower), PyStr(<<>>), PyStr(TxtUnknownCap), PyStr(TxtDell), Five}
ModelValues == {Absent, PyStr(TxtUnknown), PyStr(TxtModelX), Five}
SerialValues == {Absent, PyStr(TxtSN1), PyStr(<<>>)}
PartValues == {PyStr(<<>>), PyStr(TxtNaLower)}
DpnValues == {Absent, PyStr(<<>>), PyStr(TxtDpn)}
VpnValues == {NA, PyStr(TxtVpn), PyStr(TxtUnknown)}
MacValues == {NA, PyStr(TxtMacRaw), PyStr(TxtMac0x)}
WideCandidates ==
    {Candidate(mk, md, sn, pn, dp, vp, mac) :
        mk \in MakeValues, md \in ModelValues, sn \in SerialValues,
        pn \in PartValues, dp \in DpnValues, vp \in VpnValues,
        mac \in MacValues}

\* the lookup answers the analysis is run against
AnalysisResponses ==
    {HttpAnswer(404, "not_json", PyStr(TxtNotFound)),
     HttpAnswer(200, "org", PyStr(TxtAcmeInc)),
     HttpAnswer(200, "org", PyStr(TxtAcmeIncUpper)),
     NetFailure("timeout")}

MaxContentLen == 4
MaxItems == 2
ContentChars == {"[", "]", "{", "}", ",", "x", "1", "a"}
ShortContents == UNION {[1..n -> ContentChars] : n \in 0..MaxContentLen}

\* the array of the objects named, and a single object
RECURSIVE ArrayBody(_)
ArrayBody(names) ==
    IF names = <<>> THEN <<>>
    ELSE <<"{", Head(names), "}">>
         \o (IF Len(names) > 1 THEN <<",">> ELSE <<>>)
         \o ArrayBody(Tail(names))
ArrayOf(names) == <<"[">> \o ArrayBody(names) \o <<"]">>
ObjectOf(name) == <<"{", name, "}">>
ItemArrays ==
    {ArrayOf(names) :
        names \in UNION {[1..n -> MemberNames] : n \in 1..MaxItems}}

InferenceFailures ==
    {InferenceRaise("status_error", st, TxtRateLimit) : st \in {Txt429, Txt401}}
    \cup {InferenceRaise(k, <<>>, TxtBoom) :
             k \in {"connection_error", "other_exception", "null_content"}}

AnalysisPending ==
    [state |-> "pending", ret |-> "none", items |-> <<>>, calls |-> 0, lookups |-> 0]

\* every short text, over a few candidates
InitShortContents ==
    /\ an_image = TRUE
    /\ an_outcome \in {InferenceText(c) : c \in ShortContents}
    /\ an_cands \in {[a |-> c, b |-> EmptyCandidate] : c \in NarrowCandidates}
    /\ an_vendor \in {[a |-> r, b |-> r] :
                         r \in {HttpAnswer(200, "org", PyStr(TxtAcmeInc)),
                                NetFailure("timeout")}}
    /\ an_token = TRUE
\* one candidate, over every combination of field values
InitWideCandidates ==
    /\ an_image = TRUE
    /\ an_outcome \in {InferenceText(c) : c \in {ArrayOf(<<"a">>), ObjectOf("a")}}
    /\ an_cands \in {[a |-> c, b |-> EmptyCandidate] : c \in WideCandidates}
    /\ an_vendor \in {[a |-> r, b |-> r] : r \in AnalysisResponses}
    /\ an_token = TRUE
\* arrays of several items
InitItemArrays ==
    /\ an_image = TRUE
    /\ an_outcome \in {InferenceText(c) : c \in ItemArrays}
    /\ an_cands \in [MemberNames -> NarrowCandidates]
    /\ an_vendor \in [MemberNames -> AnalysisResponses]
    /\ an_token \in BOOLEAN
\* the call fails, or there is no image
InitFailures ==
    /\ an_image \in BOOLEAN
    /\ an_outcome \in InferenceFailures \cup {InferenceText(ArrayOf(<<"a">>))}
    /\ an_cands = [a |-> ScenarioCandidate, b |-> EmptyCandidate]
    /\ an_vendor = [a |-> NetFailure("timeout"), b |-> NetFailure("timeout")]
    /\ an_token = TRUE

InitAnalyze ==
    /\ \/ InitShortContents
       \/ InitWideCandidates
       \/ InitItemArrays
       \/ InitFailures
    /\ an_result = AnalysisPending

IdleAnalyze ==
    /\ an_image = FALSE
    /\ an_outcome = InferenceText(<<>>)
    /\ an_cands = [a |-> EmptyCandidate, b |-> EmptyCandidate]
    /\ an_vendor = [a |-> NetFailure("timeout"), b |-> NetFailure("timeout")]
    /\ an_token = FALSE
    /\ an_result = [state |-> "idle", ret |-> "none", items |-> <<>>,
                    calls |-> 0, lookups |-> 0]

AnalyzeCall ==
    /\ an_result.state = "pending"
    /\ an_result' =
           Bind(analyze_image_with_openai(an_image, an_outcome, an_cands,
                                          an_vendor, an_token), LAMBDA r :
                [state |-> IF r.raised THEN "raised" ELSE "returned",
                 ret |-> r.ret, items |-> r.items,
                 calls |-> r.calls, lookups |-> r.lookups])
    /\ UNCHANGED <<an_image, an_outcome, an_cands, an_vendor, an_token>>

----------------------------------------------------------------------------
(* on_message (366-526) *)

TxtDownloadErrorPrefix == <<"E","r","r","o","r"," ","d","o","w","n","l","o","a","d","i","n","g"," ","i","m","a","g","e",":"," ">>
TxtDownloadFailed == <<"D","o","w","n","l","o","a","d"," ","f","a","i","l","e","d">>
TxtNoDataPrefix == <<"N","o"," ","d","a","t","a"," ","e","x","t","r","a","c","t","e","d"," ","f","r","o","m"," ","i","m","a","g","e",":"," ">>
TxtNoItemsReturned == <<"a","n","a","l","y","z","e","_","i","m","a","g","e","_","w","i","t","h","_","o","p","e","n","a","i"," ","r","e","t","u","r","n","e","d"," ","n","o"," ","i","t","e","m","s">>
TxtClient == <<"A","c","m","e"," ","C","o","r","p">>
TxtFilePrefix == <<"i","m","g">>
TxtMarkError == <<"E","r","r","o","r">>
TxtMarkIssue == <<"I","s","s","u","e">>
TxtMarkApiCall == <<"N","/","A"," ","(","A","P","I"," ","C","a","l","l"," ","E","r","r","o","r">>

\* attachment_obj.filename of the i-th attachment
DigitOf == <<"1","2","3","4","5","6","7","8","9">>
FileName(i) == TxtFilePrefix \o <<DigitOf[i]>>

\* the reactions of lines 455, 506, 509, 512, 517
ReactQuestion == "question"
ReactSuccess == "check_mark"
ReactPartial == "PARTIAL_SUCCESS_EMOJI"
ReactFailure == "cross_mark"
ReactInfo == "information"

\* an entry of all_processed_items_from_message: the record, the
\* is_error_entry flag, and the attachment whose URL it carries (0: none)
Entry(item, is_error, att) ==
    [item |-> item, is_error_entry |-> is_error, att |-> att]

\* lines 409-412
DownloadErrorEntry(i) ==
    Entry(ErrorWithRaw(TxtDownloadErrorPrefix \o FileName(i), TxtDownloadFailed),
          TRUE, 0)
\* lines 439-443
NoDataEntry(i) ==
    Entry(ErrorWithRaw(TxtNoDataPrefix \o FileName(i), TxtNoItemsReturned),
          TRUE, i)
\* lines 430-433: the test that flags a returned record as an error
FlaggedAsError(item) ==
    /\ item.has_raw
    /\ \/ Contains(item.make.s, TxtMarkError)
       \/ Contains(item.make.s, TxtMarkIssue)
       \/ Contains(item.make.s, TxtMarkApiCall)
\* lines 420-437
RECURSIVE TaggedEntries(_, _)
TaggedEntries(items, i) ==
    IF items = <<>> THEN <<>>
    ELSE <<Entry(Head(items), FlaggedAsError(Head(items)), i)>>
         \o TaggedEntries(Tail(items), i)

\* lines 477-483: the row of one entry (the timestamp and the user are those
\* of the event)
SheetRow(e, client_name, entry) ==
    [timestamp |-> e, discord_user |-> e, client_name |-> client_name,
     make |-> entry.item.make, model |-> entry.item.model,
     serial_number |-> entry.item.serial_number,
     part_number |-> entry.item.part_number,
     mac_address |-> entry.item.mac_address,
     image_url |-> entry.att]

\* a part of the summary
Part(kind, entry_index) == [kind |-> kind, entry |-> entry_index]

\* message.content.strip(), or message.clean_content.strip() when that is
\* empty; the messages of the model carry no mention, so both are the text
ClientName(m) ==
    IF Strip(m.content) # <<>> THEN Strip(m.content) ELSE Strip(m.content)

\* a record that stands for a failure
IsErrorRecord(r) ==
    \/ r.has_raw
    \/ Prefix(r.make.s, Len(TxtApiErrorPrefix)) = TxtApiErrorPrefix
    \/ Prefix(r.make.s, Len(TxtApiCallErrPrefix)) = TxtApiCallErrPrefix

(* Inputs of the handler *)
MaxAttachments == 2
Messages ==
    {[author_is_bot |-> b, channel_ok |-> c, content |-> t, attachments |-> a] :
        b \in BOOLEAN, c \in BOOLEAN, t \in {<<>>, <<" ">>, TxtClient},
        a \in UNION {[1..n -> BOOLEAN] : n \in 0..MaxAttachments}}
\* what the inference call may do for an attachment of an event
HandlerOutcomes ==
    {InferenceRaise("status_error", Txt429, TxtRateLimit),
     InferenceRaise("connection_error", <<>>, TxtBoom),
     InferenceRaise("other_exception", <<>>, TxtBoom),
     InferenceRaise("null_content", <<>>, <<>>)}
    \cup {InferenceText(c) :
             c \in {<<"x">>, <<"[", "]">>, <<"[", "1", "]">>, <<"[", "{", "a", "}">>,
                    ArrayOf(<<"a">>), ArrayOf(<<"a", "b">>)}}
HandlerCandidates == [a |-> ScenarioCandidate, b |-> LabelledCandidate]
HandlerVendor == [a |-> NetFailure("timeout"), b |-> NetFailure("timeout")]

InitHandler(events) ==
    /\ live = events
    /\ msg \in [events -> Messages]
    /\ pc = [e \in events |-> "arrived"]
    /\ idx = [e \in events |-> 0]
    /\ entries = [e \in events |-> <<>>]
    /\ any_image = [e \in events |-> FALSE]
    /\ had_errors = [e \in events |-> FALSE]
    /\ saves = [e \in events |-> 0]
    /\ entry_idx = [e \in events |-> 0]
    /\ reply = [e \in events |-> "none"]
    /\ summary = [e \in events |-> <<>>]
    /\ reactions = [e \in events |-> <<>>]
    /\ status = [e \in events |-> "none"]
    /\ sheet = <<>>
    /\ downloads = [e \in events |-> <<>>]
    /\ calls_made = [e \in events |-> 0]
    /\ lookups_made = [e \in events |-> 0]
    /\ attempts = [e \in events |-> <<>>]
    /\ facts = [e \in events |-> <<>>]

IdleHandler == InitHandler({})

\* lines 368-372: a message of the bot itself, of another channel, or without
\* any attachment is not handled
Ignore(e) ==
    /\ pc[e] = "arrived"
    /\ \/ msg[e].author_is_bot
       \/ ~msg[e].channel_ok
       \/ msg[e].attachments = <<>>
    /\ pc' = [pc EXCEPT ![e] = "done"]
    /\ status' = [status EXCEPT ![e] = "ignored"]
    /\ UNCHANGED <<live, msg, idx, entries, any_image, had_errors, saves, entry_idx,
                   reply, summary, reactions, sheet,
                   downloads, calls_made, lookups_made, attempts, facts>>
    /\ UNCHANGED functionVars

\* lines 373-379
ClientNameMissing(e) ==
    /\ pc[e] = "arrived"
    /\ ~msg[e].author_is_bot /\ msg[e].channel_ok /\ msg[e].attachments # <<>>
    /\ ClientName(msg[e]) = <<>>
    /\ reply' = [reply EXCEPT ![e] = "client_name_missing"]
    /\ pc' = [pc EXCEPT ![e] = "done"]
    /\ status' = [status EXCEPT ![e] = "client_name_missing"]
    /\ UNCHANGED <<live, msg, idx, entries, any_image, had_errors, saves, entry_idx,
                   summary, reactions, sheet,
                   downloads, calls_made, lookups_made, attempts, facts>>
    /\ UNCHANGED functionVars

\* lines 381-396
StartProcessing(e) ==
    /\ pc[e] = "arrived"
    /\ ~msg[e].author_is_bot /\ msg[e].channel_ok /\ msg[e].attachments # <<>>
    /\ ClientName(msg[e]) # <<>>
    /\ reply' = [reply EXCEPT ![e] = "processing"]
    /\ pc' = [pc EXCEPT ![e] = "loop"]
    /\ idx' = [idx EXCEPT ![e] = 1]
    /\ UNCHANGED <<live, msg, entries, any_image, had_errors, saves, entry_idx,
                   summary, reactions, status, sheet,
                   downloads, calls_made, lookups_made, attempts, facts>>
    /\ UNCHANGED functionVars

InLoop(e) == pc[e] = "loop" /\ idx[e] <= Len(msg[e].attachments)

\* lines 445-446: an attachment that is no image
SkipAttachment(e) ==
    /\ InLoop(e)
    /\ ~msg[e].attachments[idx[e]]
    /\ idx' = [idx EXCEPT ![e] = @ + 1]
    /\ UNCHANGED <<live, msg, pc, entries, any_image, had_errors, saves, entry_idx,
                   reply, summary, reactions, status, sheet,
                   downloads, calls_made, lookups_made, attempts, facts>>
    /\ UNCHANGED functionVars

\* lines 402-414: download_image returns None, or no bytes
DownloadFails(e) ==
    /\ InLoop(e)
    /\ msg[e].attachments[idx[e]]
    /\ any_image' = [any_image EXCEPT ![e] = TRUE]
    /\ downloads' = [downloads EXCEPT ![e] = Append(@, idx[e])]
    /\ entries' = [entries EXCEPT ![e] = Append(@, DownloadErrorEntry(idx[e]))]
    /\ had_errors' = [had_errors EXCEPT ![e] = TRUE]
    /\ facts' = [facts EXCEPT ![e] =
                    Append(@, [att |-> idx[e], what |-> "download_failed",
                               items |-> 0])]
    /\ idx' = [idx EXCEPT ![e] = @ + 1]
    /\ UNCHANGED <<live, msg, pc, saves, entry_idx, reply, summary, reactions, status,
                   sheet, calls_made, lookups_made, attempts>>
    /\ UNCHANGED functionVars

\* what happened to an image that was downloaded
Fact(i, outcome, r) ==
    [att |-> i,
     what |-> IF outcome.kind \in {"status_error", "connection_error",
                                   "other_exception"}
              THEN "inference_failed"
              ELSE IF r.items = <<>> \/ IsErrorRecord(r.items[1])
              THEN "parse_failed"
              ELSE "items",
     items |-> IF r.items = <<>> \/ IsErrorRecord(r.items[1])
               THEN 0 ELSE Len(r.items)]

\* lines 402-406: the image of the attachment is downloaded
Downloaded(e) ==
    /\ any_image' = [any_image EXCEPT ![e] = TRUE]
    /\ downloads' = [downloads EXCEPT ![e] = Append(@, idx[e])]

\* lines 417-444: the image is analysed, the inference call ending in outcome;
\* an exception that leaves analyze_image_with_openai ends the handler
Analysed(e, outcome) ==
    LET i == idx[e]
        r == analyze_image_with_openai(TRUE, outcome, HandlerCandidates,
                                       HandlerVendor, TRUE)
    IN  /\ calls_made' = [calls_made EXCEPT ![e] = @ + r.calls]
        /\ lookups_made' = [lookups_made EXCEPT ![e] = @ + r.lookups]
        /\ facts' = [facts EXCEPT ![e] = Append(@, Fact(i, outcome, r))]
        /\ IF r.raised
           THEN /\ pc' = [pc EXCEPT ![e] = "crashed"]
                /\ UNCHANGED <<entries, had_errors, idx>>
           ELSE /\ entries' = [entries EXCEPT ![e] =
                       IF r.ret = "list" /\ r.items # <<>>
                       THEN @ \o TaggedEntries(r.items, i)
                       ELSE Append(@, NoDataEntry(i))]
                /\ had_errors' = [had_errors EXCEPT ![e] =
                       \/ @
                       \/ r.ret # "list" \/ r.items = <<>>
                       \/ \E j \in 1..Len(r.items) : FlaggedAsError(r.items[j])]
                /\ idx' = [idx EXCEPT ![e] = @ + 1]
                /\ UNCHANGED pc

\* lines 402-444: the image is downloaded and analysed
AnalyzeAttachment(e) ==
    /\ InLoop(e)
    /\ msg[e].attachments[idx[e]]
    /\ \E outcome \in HandlerOutcomes : Downloaded(e) /\ Analysed(e, outcome)
    /\ UNCHANGED <<live, msg, saves, entry_idx, reply, summary, reactions, status,
                   sheet, attempts>>
    /\ UNCHANGED functionVars

\* lines 448-459: the loop over the attachments is over
Consolidate(e) ==
    /\ pc[e] = "loop" /\ idx[e] > Len(msg[e].attachments)
    /\ IF ~any_image[e] /\ msg[e].attachments # <<>>
       THEN /\ reply' = [reply EXCEPT ![e] = "no_valid_image_attachments"]
            /\ status' = [status EXCEPT ![e] = "nothing_to_process"]
            /\ pc' = [pc EXCEPT ![e] = "done"]
            /\ UNCHANGED <<reactions, saves, summary, entry_idx>>
       ELSE IF entries[e] = <<>> /\ any_image[e]
       THEN /\ reply' = [reply EXCEPT ![e] = "no_information_extracted"]
            /\ reactions' = [reactions EXCEPT ![e] = Append(@, ReactQuestion)]
            /\ status' = [status EXCEPT ![e] = "no_information"]
            /\ pc' = [pc EXCEPT ![e] = "done"]
            /\ UNCHANGED <<saves, summary, entry_idx>>
       ELSE /\ saves' = [saves EXCEPT ![e] = 0]
            /\ summary' = [summary EXCEPT ![e] = <<Part("client", 0)>>]
            /\ entry_idx' = [entry_idx EXCEPT ![e] = 1]
            /\ pc' = [pc EXCEPT ![e] = "save"]
            /\ UNCHANGED <<reply, reactions, status>>
    /\ UNCHANGED <<live, msg, idx, entries, any_image, had_errors, sheet,
                   downloads, calls_made, lookups_made, attempts, facts>>
    /\ UNCHANGED functionVars

InSave(e) == pc[e] = "save" /\ entry_idx[e] <= Len(entries[e])

\* lines 462-467: an entry flagged as an error is reported, not saved
ReportErrorEntry(e) ==
    /\ InSave(e)
    /\ entries[e][entry_idx[e]].is_error_entry
    /\ summary' = [summary EXCEPT ![e] =
                      @ \o <<Part("item_error", entry_idx[e])>>
                        \o (IF entries[e][entry_idx[e]].item.has_raw
                            THEN <<Part("details", entry_idx[e])>> ELSE <<>>)]
    /\ entry_idx' = [entry_idx EXCEPT ![e] = @ + 1]
    /\ UNCHANGED <<live, msg, pc, idx, entries, any_image, had_errors, saves,
                   reply, reactions, status, sheet,
                   downloads, calls_made, lookups_made, attempts, facts>>
    /\ UNCHANGED functionVars

\* lines 469-501: the row of the entry is appended to the ledger, or the
\* append fails
AppendEntry(e) ==
    /\ InSave(e)
    /\ ~entries[e][entry_idx[e]].is_error_entry
    /\ \E ok \in BOOLEAN :
         LET sheet_row == SheetRow(e, ClientName(msg[e]), entries[e][entry_idx[e]])
         IN  /\ attempts' = [attempts EXCEPT ![e] =
                    Append(@, [entry |-> entry_idx[e], row |-> sheet_row, ok |-> ok])]
             /\ IF ok
                THEN /\ sheet' = Append(sheet, sheet_row)
                     /\ saves' = [saves EXCEPT ![e] = @ + 1]
                     /\ summary' = [summary EXCEPT ![e] = Append(@, Part("saved", entry_idx[e]))]
                     /\ UNCHANGED had_errors
                ELSE /\ had_errors' = [had_errors EXCEPT ![e] = TRUE]
                     /\ summary' = [summary EXCEPT ![e] =
                                       Append(@, Part("save_failed", entry_idx[e]))]
                     /\ UNCHANGED <<sheet, saves>>
    /\ entry_idx' = [entry_idx EXCEPT ![e] = @ + 1]
    /\ UNCHANGED <<live, msg, pc, idx, entries, any_image, reply, reactions,
                   status, downloads, calls_made, lookups_made, facts>>
    /\ UNCHANGED functionVars

\* lines 503-517: the overall status and the reaction that goes with it
FinalStatus(e) ==
    IF saves[e] > 0 /\ ~had_errors[e] THEN "full_success"
    ELSE IF saves[e] > 0 /\ had_errors[e] THEN "partial_success"
    ELSE IF had_errors[e] THEN "total_failure"
    ELSE IF ~any_image[e] THEN "no_image_attachments"
    ELSE "no_valid_item_data"
FinalReaction(st) ==
    CASE st = "full_success" -> <<ReactSuccess>>
      [] st = "partial_success" -> <<ReactPartial>>
      [] st = "total_failure" -> <<ReactFailure>>
      [] st = "no_image_attachments" -> <<>>
      [] OTHER -> <<ReactInfo>>

\* lines 503-526
Finish(e) ==
    /\ pc[e] = "save" /\ entry_idx[e] > Len(entries[e])
    /\ status' = [status EXCEPT ![e] = FinalStatus(e)]
    /\ reactions' = [reactions EXCEPT ![e] = @ \o FinalReaction(FinalStatus(e))]
    /\ summary' = [summary EXCEPT ![e] =
                      (IF FinalStatus(e) = "no_image_attachments"
                       THEN <<Part("no_image_attachments", 0)>>
                       ELSE Append(@, Part(FinalStatus(e), 0)))
                      \o <<Part("time", 0)>>]
    /\ reply' = [reply EXCEPT ![e] = "summary"]
    /\ pc' = [pc EXCEPT ![e] = "done"]
    /\ UNCHANGED <<live, msg, idx, entries, any_image, had_errors, saves, entry_idx,
                   sheet, downloads, calls_made, lookups_made, attempts, facts>>
    /\ UNCHANGED functionVars


----------------------------------------------------------------------------
(* The summary posted (520-526) *)

MessageCeiling == 1990
TxtTruncated == <<"\n", ".", ".", ".", " ", "(", "m", "e", "s", "s", "a", "g", "e", " ",
                  "t", "r", "u", "n", "c", "a", "t", "e", "d", ")">>

\* lines 523-524
Truncated(message) ==
    IF Len(message) > MessageCeiling
    THEN Prefix(message, MessageCeiling) \o TxtTruncated
    ELSE message

(* Inputs: summaries whose length is around the ceiling *)
CeilingMargin == 30
SummaryChars == {"a", "."}
Summaries ==
    {[i \in 1..n |-> c] :
        n \in (MessageCeiling - CeilingMargin)..(MessageCeiling + CeilingMargin),
        c \in SummaryChars}

InitReply ==
    /\ full_summary_message \in Summaries
    /\ posted = [state |-> "pending", content |-> <<>>]
IdleReply ==
    /\ full_summary_message = <<>>
    /\ posted = [state |-> "idle", content |-> <<>>]

\* lines 523-526
PostSummary ==
    /\ posted.state = "pending"
    /\ posted' = [state |-> "posted", content |-> Truncated(full_summary_message)]
    /\ UNCHANGED full_summary_message

----------------------------------------------------------------------------
(* Specifications of the functions *)

\* no event, no task
IdleLoop == running = 0 /\ inflight = <<>> /\ started = <<>>

InitSpecMac == InitMac /\ IdleLookup /\ IdleAnalyze /\ IdleReply /\ IdleHandler /\ IdleLoop
NextMac == FormatMacCall /\ UNCHANGED <<lookupVars, analyzeVars, replyVars, handlerVars, loopVars>>
SpecMac == InitSpecMac /\ [][NextMac]_vars

InitSpecLookup == IdleMac /\ InitLookup /\ IdleAnalyze /\ IdleReply /\ IdleHandler /\ IdleLoop
NextLookup == LookupCall /\ UNCHANGED <<macVars, analyzeVars, replyVars, handlerVars, loopVars>>
SpecLookup == InitSpecLookup /\ [][NextLookup]_vars

InitSpecAnalyze == IdleMac /\ IdleLookup /\ InitAnalyze /\ IdleReply /\ IdleHandler /\ IdleLoop
NextAnalyze == AnalyzeCall /\ UNCHANGED <<macVars, lookupVars, replyVars, handlerVars, loopVars>>
SpecAnalyze == InitSpecAnalyze /\ [][NextAnalyze]_vars

InitSpecReply == IdleMac /\ IdleLookup /\ IdleAnalyze /\ InitReply /\ IdleHandler /\ IdleLoop
NextReply == PostSummary /\ UNCHANGED <<macVars, lookupVars, analyzeVars, handlerVars, loopVars>>
SpecReply == InitSpecReply /\ [][NextReply]_vars

(* One event, handled from its arrival to the end of its handler *)
Init == IdleMac /\ IdleLookup /\ IdleAnalyze /\ IdleReply /\ InitHandler({1}) /\ IdleLoop
Next ==
    \/ \E e \in live : Ignore(e) /\ UNCHANGED loopVars
    \/ \E e \in live : ClientNameMissing(e) /\ UNCHANGED loopVars
    \/ \E e \in live : StartProcessing(e) /\ UNCHANGED loopVars
    \/ \E e \in live : SkipAttachment(e) /\ UNCHANGED loopVars
    \/ \E e \in live : DownloadFails(e) /\ UNCHANGED loopVars
    \/ \E e \in live : AnalyzeAttachment(e) /\ UNCHANGED loopVars
    \/ \E e \in live : Consolidate(e) /\ UNCHANGED loopVars
    \/ \E e \in live : ReportErrorEntry(e) /\ UNCHANGED loopVars
    \/ \E e \in live : AppendEntry(e) /\ UNCHANGED loopVars
    \/ \E e \in live : Finish(e) /\ UNCHANGED loopVars
Spec == Init /\ [][Next]_vars

----------------------------------------------------------------------------
(* Two events: the handler of each runs as a task of one cooperative loop.  *)
(* A task keeps the loop until it reaches an await that suspends it: the    *)
(* replies, edits and reactions (378, 396, 450, 506-526) and the calls     *)
(* handed to a thread (232, 106, 485).  download_image (195-202) calls     *)
(* requests.get directly and does not suspend.                              *)

NoInference == [kind |-> "none", content |-> <<>>, status |-> <<>>, msg |-> <<>>]

\* the task of e may take a step: no other task holds the loop
Turn(e) == running \in {0, e}
\* the handler of e starts
Starts(e) == started' = Append(started, e)

ConcurrentMessages ==
    {[author_is_bot |-> FALSE, channel_ok |-> TRUE, content |-> t, attachments |-> a] :
        t \in {<<>>, TxtClient},
        a \in UNION {[1..n -> BOOLEAN] : n \in 0..MaxAttachments}}
ConcurrentOutcomes ==
    {InferenceText(ArrayOf(<<"a">>)),
     InferenceRaise("status_error", Txt429, TxtRateLimit)}

TaskIgnore(e) ==
    /\ Turn(e) /\ Ignore(e)
    /\ running' = 0 /\ Starts(e) /\ UNCHANGED inflight

TaskClientNameMissing(e) ==
    /\ Turn(e) /\ ClientNameMissing(e)
    /\ running' = 0 /\ Starts(e) /\ UNCHANGED inflight

\* suspended at the reply of line 396
TaskStartProcessing(e) ==
    /\ Turn(e) /\ StartProcessing(e)
    /\ running' = 0 /\ Starts(e) /\ UNCHANGED inflight

\* the loop goes on to the next attachment without an await
TaskSkipAttachment(e) ==
    /\ Turn(e) /\ inflight[e] = NoInference /\ SkipAttachment(e)
    /\ running' = e /\ UNCHANGED <<inflight, started>>

TaskDownloadFails(e) ==
    /\ Turn(e) /\ inflight[e] = NoInference /\ DownloadFails(e)
    /\ running' = e /\ UNCHANGED <<inflight, started>>

\* lines 402-406, 204-232: the image is downloaded and the inference call is
\* handed to a thread; the task is suspended until the call ends
SendToInference(e) ==
    /\ Turn(e) /\ inflight[e] = NoInference
    /\ InLoop(e)
    /\ msg[e].attachments[idx[e]]
    /\ Downloaded(e)
    /\ \E outcome \in ConcurrentOutcomes :
          inflight' = [inflight EXCEPT ![e] = outcome]
    /\ running' = 0
    /\ UNCHANGED <<live, msg, pc, idx, entries, had_errors, saves, entry_idx,
                   reply, summary, reactions, status, sheet,
                   calls_made, lookups_made, attempts, facts>>
    /\ UNCHANGED <<functionVars, started>>

\* lines 250-444: the inference call has ended and the task goes on
ResumeAnalysis(e) ==
    /\ Turn(e) /\ inflight[e] # NoInference
    /\ InLoop(e)
    /\ Analysed(e, inflight[e])
    /\ inflight' = [inflight EXCEPT ![e] = NoInference]
    /\ running' = IF pc'[e] = "crashed" THEN 0 ELSE e
    /\ UNCHANGED <<live, msg, any_image, saves, entry_idx, reply, summary,
                   reactions, status, sheet, downloads, attempts>>
    /\ UNCHANGED <<functionVars, started>>

\* what follows is an append handed to a thread (485), a reaction or an edit
TaskConsolidate(e) ==
    /\ Turn(e) /\ inflight[e] = NoInference /\ Consolidate(e)
    /\ running' = 0 /\ UNCHANGED <<inflight, started>>

TaskReportErrorEntry(e) ==
    /\ Turn(e) /\ ReportErrorEntry(e)
    /\ running' = 0 /\ UNCHANGED <<inflight, started>>

TaskAppendEntry(e) ==
    /\ Turn(e) /\ AppendEntry(e)
    /\ running' = 0 /\ UNCHANGED <<inflight, started>>

TaskFinish(e) ==
    /\ Turn(e) /\ Finish(e)
    /\ running' = 0 /\ UNCHANGED <<inflight, started>>

InitTwo ==
    /\ IdleMac /\ IdleLookup /\ IdleAnalyze /\ IdleReply
    /\ InitHandler({1, 2})
    /\ msg \in [{1, 2} -> ConcurrentMessages]
    /\ running = 0
    /\ inflight = [e \in {1, 2} |-> NoInference]
    /\ started = <<>>
NextTwo ==
    \/ \E e \in live : TaskIgnore(e)
    \/ \E e \in live : TaskClientNameMissing(e)
    \/ \E e \in live : TaskStartProcessing(e)
    \/ \E e \in live : TaskSkipAttachment(e)
    \/ \E e \in live : TaskDownloadFails(e)
    \/ \E e \in live : SendToInference(e)
    \/ \E e \in live : ResumeAnalysis(e)
    \/ \E e \in live : TaskConsolidate(e)
    \/ \E e \in live : TaskReportErrorEntry(e)
    \/ \E e \in live : TaskAppendEntry(e)
    \/ \E e \in live : TaskFinish(e)
SpecTwo == InitTwo /\ [][NextTwo]_vars

----------------------------------------------------------------------------
(* Claims about format_mac_address (SpecMac) *)

MacReturned == mac_result.state \in {"returned", "raised"}
\* the input with its non-alphanumeric characters removed, upper-cased
CleanedInput == IF mac_string.k = "str" THEN Upper(FilterAlnum(mac_string.s)) ELSE <<>>

\* C3: for every input string the normaliser returns the sentinel or six
\* colon-separated pairs of characters from 0-9A-F, and the six-pair form
\* exactly when the cleaned input is 12 hexadecimal digits.
C3_NormalizerContract ==
    MacReturned =>
        /\ mac_result.state = "returned"
        /\ mac_result.val = NA \/ IsSixPairHex(mac_result.val.s)
        /\ IsSixPairHex(mac_result.val.s)
               <=> (Len(CleanedInput) = MacLen /\ AllHex(CleanedInput))

----------------------------------------------------------------------------
(* Claims about get_vendor_from_mac (SpecLookup) *)

LookupReturned == lookup_result.state = "returned"
SentinelAddress == lookup_mac = <<>> \/ Lower(lookup_mac) = TxtNaLower
\* the answers the claim lists as failures of the lookup
LookupFailed ==
    \/ lookup_resp.net # "ok"
    \/ lookup_resp.status # 200
    \/ lookup_resp.body.kind = "not_json"
\* a 200 answer whose body does not carry data.organization_name
NoNestedField == lookup_resp.net = "ok" /\ lookup_resp.status = 200
                 /\ lookup_resp.body.kind # "org"

\* C7 as stated: at most one request; none for the sentinel address or a missing
\* credential; no vendor for a timeout, a transport error, a non-200 status, a
\* body that is not JSON, or a 200 body without the nested organization name.
C7_LookupNeverVendorOnFailure ==
    LookupReturned =>
        /\ lookup_result.requests <= 1
        /\ (SentinelAddress \/ ~lookup_token)
               => (lookup_result.requests = 0 /\ lookup_result.ret = PyNone)
        /\ (LookupFailed \/ NoNestedField) => lookup_result.ret = PyNone

\* C7 amended: as above, but a 200 body that is a JSON string is returned as
\* the vendor unless it contains "not found" or "errors" in any case; only
\* the other bodies without the nested field give no vendor.
C7_LookupAmended ==
    LookupReturned =>
        /\ lookup_result.requests <= 1
        /\ (SentinelAddress \/ ~lookup_token)
               => (lookup_result.requests = 0 /\ lookup_result.ret = PyNone)
        /\ LookupFailed => lookup_result.ret = PyNone
        /\ (NoNestedField /\ lookup_resp.body.kind # "string")
               => lookup_result.ret = PyNone
        /\ (NoNestedField /\ lookup_resp.body.kind = "string"
            /\ lookup_result.requests = 1)
               => lookup_result.ret =
                      IF \/ Contains(Lower(lookup_resp.body.val.s), TxtNotFoundLower)
                         \/ Contains(Lower(lookup_resp.body.val.s), TxtErrors)
                      THEN PyNone ELSE lookup_resp.body.val

\* a request was made and answered 200 with a body that is a JSON string
\* naming a vendor, and the string came back as the vendor
C7_Witness ==
    /\ LookupReturned
    /\ lookup_result.requests = 1
    /\ lookup_resp.net = "ok" /\ lookup_resp.status = 200
    /\ lookup_resp.body.kind = "string"
    /\ lookup_resp.body.val = PyStr(TxtAcme)
    /\ lookup_result.ret = PyStr(TxtAcme)

----------------------------------------------------------------------------
(* Claims about analyze_image_with_openai (SpecAnalyze) *)

AnalysisEnded == an_result.state \in {"returned", "raised"}
ItemFields == {"make", "model", "serial_number", "part_number", "mac_address"}

\* a concrete value, or the sentinel
ConcreteOrSentinel(v) ==
    /\ v.k = "str"
    /\ v = NA \/ (v.s # <<>> /\ Lower(v.s) \notin {TxtNaLower, TxtUnknown})

ScenarioInput ==
    /\ an_image
    /\ an_outcome = InferenceText(ArrayOf(<<"a">>))
    /\ an_cands["a"] = ScenarioCandidate
    /\ get_vendor_from_mac(TxtMacColon, an_token, an_vendor["a"]).ret = PyNone
ScenarioRecord ==
    ItemInfo(PyStr(TxtDell), PyStr(TxtVpn), PyStr(TxtSN1), NA, PyStr(TxtMacColon))

\* C4: every one of the five fields of every returned record is a concrete
\* value or the sentinel, and the scenario candidate yields Dell,
\* KM5221WBKB-INT, SN1, the sentinel and AA:BB:CC:DD:EE:FF.
C4_FieldsConcreteOrSentinel ==
    (an_result.state = "returned" /\ an_result.ret = "list") =>
        /\ \A i \in 1..Len(an_result.items) : \A f \in ItemFields :
               ConcreteOrSentinel(an_result.items[i][f])
        /\ ScenarioInput => an_result.items = <<ScenarioRecord>>

\* one candidate a, make absent, a concrete address, dp_n present, and nothing
\* in the candidate that makes the loop raise
PrecedenceInput ==
    /\ an_image
    /\ an_outcome.kind = "text"
    /\ an_outcome.content \in {ArrayOf(<<"a">>), ObjectOf("a")}
    /\ Missing(Get(an_cands["a"].make)) = "true"
    /\ Missing(Get(an_cands["a"].model)) # "raise"
    /\ Present(Get(an_cands["a"].dp_n))
    /\ ~format_mac_address(Get(an_cands["a"].mac_address)).raised
    /\ format_mac_address(Get(an_cands["a"].mac_address)).val # NA
    /\ an_token

\* C5: with make absent, a concrete address and dp_n present, the make is
\* "Dell" when the lookup returns absence and "Acme Networks" when the lookup
\* returns the organization name "Acme Networks Inc".
C5_LookupOutranksDpn ==
    (an_result.state = "returned" /\ PrecedenceInput) =>
        /\ Len(an_result.items) = 1
        /\ (an_vendor["a"].net # "ok" \/ an_vendor["a"].status # 200)
               => an_result.items[1].make = PyStr(TxtDell)
        /\ an_vendor["a"] = HttpAnswer(200, "org", PyStr(TxtAcmeInc))
               => an_result.items[1].make = PyStr(TxtAcme)

\* the candidates the text decodes to
DecodedCandidates == ExtractItems(an_outcome.content).els

\* C6: for image bytes that are not empty the function makes exactly one
\* inference call and returns, without raising, either one item per candidate
\* in the candidates' order or exactly one ErrorRecord; never an empty list,
\* never a list that mixes items with an ErrorRecord.
C6_AnalyzeTotal ==
    (an_image /\ AnalysisEnded) =>
        /\ an_result.state = "returned"
        /\ an_result.calls = 1
        /\ an_result.ret = "list"
        /\ an_result.items # <<>>
        /\ \/ /\ Len(an_result.items) = 1
              /\ IsErrorRecord(an_result.items[1])
           \/ /\ an_outcome.kind = "text"
              /\ Len(an_result.items) = Len(DecodedCandidates)
              /\ \A i \in 1..Len(an_result.items) :
                    /\ ~IsErrorRecord(an_result.items[i])
                    /\ an_result.items[i] =
                          Reconcile(CandidateOf(an_cands, DecodedCandidates[i].name),
                                    VendorOf(an_vendor, DecodedCandidates[i].name),
                                    an_token).item

----------------------------------------------------------------------------
(* Properties of on_message *)

\* the event is one the handler has to deal with, and its handler has ended
Handled(e) == ~msg[e].author_is_bot /\ msg[e].channel_ok
Ended(e) == pc[e] = "done"
Summarised(e) == Ended(e) /\ reply[e] = "summary"
Indexes(seq) == [i \in 1..Len(seq) |-> i]
ImageIndexes(m) == SelectSeq(Indexes(m.attachments), LAMBDA i : m.attachments[i])
HasImage(m) == ImageIndexes(m) # <<>>
InputError(e) == ClientName(msg[e]) = <<>> \/ ~HasImage(msg[e])

\* C1: an append is attempted only for entries that are ReconciledItems, and
\* every entry that is an ErrorRecord is flagged as an error entry, so that
\* it is reported as an error and never counted as a saved row.
C1_OnlyItemsBecomeRows ==
    \A e \in live :
        /\ \A i \in 1..Len(attempts[e]) :
              ~IsErrorRecord(entries[e][attempts[e][i].entry].item)
        /\ \A j \in 1..Len(entries[e]) :
              IsErrorRecord(entries[e][j].item) => entries[e][j].is_error_entry

\* the rows of the event that were saved, and whether anything failed
SavedRows(e) == Cardinality({i \in 1..Len(attempts[e]) : attempts[e][i].ok})
FailureOccurred(e) ==
    \/ \E i \in 1..Len(facts[e]) : facts[e][i].what # "items"
    \/ \E i \in 1..Len(attempts[e]) : ~attempts[e][i].ok

\* C2: for an event with a client name and an image attachment whose handler
\* has reported, the status is full success only if nothing failed and a row
\* was saved, partial success if a row was saved and something failed, and
\* total failure if no row was saved.
C2_StatusMatchesOutcome ==
    \A e \in live :
        (Summarised(e) /\ Handled(e) /\ ~InputError(e)) =>
            /\ status[e] = "full_success" =>
                  (SavedRows(e) > 0 /\ ~FailureOccurred(e))
            /\ (SavedRows(e) > 0 /\ FailureOccurred(e)) =>
                  status[e] = "partial_success"
            /\ SavedRows(e) = 0 => status[e] = "total_failure"

\* the entries that are ReconciledItems, and the attempts made for them
ItemEntries(e) ==
    SelectSeq(Indexes(entries[e]), LAMBDA j : ~IsErrorRecord(entries[e][j].item))
ItemAttempts(e) ==
    SelectSeq([i \in 1..Len(attempts[e]) |-> attempts[e][i].entry],
              LAMBDA j : ~IsErrorRecord(entries[e][j].item))

\* C8: the handler never stops in the middle of a batch; when it has
\* reported, every image attachment was downloaded, in order, each has its
\* outcome, the entries are in attachment order, and every ReconciledItem got
\* exactly one append attempt, in the order of the entries.
C8_NoFailureStopsBatch ==
    \A e \in live :
        /\ pc[e] # "crashed"
        /\ Summarised(e) =>
              /\ downloads[e] = ImageIndexes(msg[e])
              /\ [i \in 1..Len(facts[e]) |-> facts[e][i].att] = downloads[e]
              /\ \A i, j \in 1..Len(entries[e]) :
                    (i < j /\ entries[e][i].att # 0 /\ entries[e][j].att # 0)
                        => entries[e][i].att <= entries[e][j].att
              /\ ItemAttempts(e) = ItemEntries(e)

\* C9: an event of the designated channel without a client name or without
\* an image attachment ends with a reply to the user and without any
\* download, inference call, vendor lookup or append.
C9_InputErrorReported ==
    \A e \in live :
        (Ended(e) /\ Handled(e) /\ InputError(e)) =>
            /\ reply[e] # "none"
            /\ downloads[e] = <<>>
            /\ calls_made[e] = 0
            /\ lookups_made[e] = 0
            /\ attempts[e] = <<>>

\* the markers for success, partial success, failure and missing input
DefinedMarkers == {ReactSuccess, ReactPartial, ReactFailure, ReactQuestion}

\* C10: every event of the designated channel whose handler has ended, in
\* success, partial success, failure or an input error, has a reaction, and
\* every reaction is one of the four markers.
C10_ReactionAlwaysAdded ==
    \A e \in live :
        (Ended(e) /\ Handled(e)) =>
            /\ reactions[e] # <<>>
            /\ \A i \in 1..Len(reactions[e]) : reactions[e][i] \in DefinedMarkers

----------------------------------------------------------------------------
(* Properties of two events (SpecTwo) *)

\* the handler of a started before the handler of b did
Before(a, b) ==
    /\ \E i \in 1..Len(started) : started[i] = a
    /\ \A i, j \in 1..Len(started) : (started[i] = a /\ started[j] = b) => i < j
\* the handler of e has started and has not posted its final reply
InProgress(e) == pc[e] \in {"loop", "save"}
WithImage(e) == ClientName(msg[e]) # <<>> /\ HasImage(msg[e])

\* C11: of two events with image attachments, while the handler of the one
\* that started first has not posted its final reply, the other has made no
\* download, no inference call and no append; and the rows of one event are
\* never between rows of the other in the ledger.
C11_OneEventAtATime ==
    /\ \A a, b \in live :
          (a # b /\ WithImage(a) /\ WithImage(b) /\ Before(a, b) /\ InProgress(a)) =>
              /\ downloads[b] = <<>>
              /\ inflight[b] = NoInference
              /\ calls_made[b] = 0
              /\ attempts[b] = <<>>
    /\ \A i, j, n \in 1..Len(sheet) :
          (i < j /\ j < n /\ sheet[i].timestamp = sheet[n].timestamp)
              => sheet[j].timestamp = sheet[i].timestamp

----------------------------------------------------------------------------
(* Properties of the summary posted (SpecReply) *)

Posted == posted.state = "posted"
WasCut == Len(full_summary_message) > MessageCeiling
EndsWithMarker(t) ==
    /\ Len(t) >= Len(TxtTruncated)
    /\ SubSeq(t, Len(t) - Len(TxtTruncated) + 1, Len(t)) = TxtTruncated

\* C12: the reply posted, the truncation marker counted, is never longer than
\* the ceiling of 1990 characters; the marker ends it exactly when the
\* summary was cut, and a summary at or under the ceiling is posted as it is.
C12_PostedWithinCeiling ==
    Posted =>
        /\ Len(posted.content) <= MessageCeiling
        /\ EndsWithMarker(posted.content) <=> WasCut
        /\ ~WasCut => posted.content = full_summary_message

----------------------------------------------------------------------------
(* Properties of the reconciliation (SpecAnalyze) *)

\* a record fed back as a candidate: its five fields, dp_n and vpn absent
AsCandidate(item) ==
    Candidate(item.make, item.model, item.serial_number, item.part_number,
              Absent, Absent, item.mac_address)
FiveFields(r) ==
    <<r.make, r.model, r.serial_number, r.part_number, r.mac_address>>
ItemsReturned ==
    /\ an_image /\ an_result.state = "returned" /\ an_outcome.kind = "text"
    /\ an_result.items # <<>>
    /\ \A i \in 1..Len(an_result.items) : ~IsErrorRecord(an_result.items[i])

\* C13: reconciling an item again, as a candidate with its five fields and
\* the same answer of the lookup, gives the same five fields; and the lookup
\* is called at most once for a candidate, only when its make is missing and
\* its normalised address is not the sentinel.
C13_ReconcileIdempotent ==
    ItemsReturned =>
        \A i \in 1..Len(an_result.items) :
            LET name == DecodedCandidates[i].name
                cand == CandidateOf(an_cands, name)
                first == Reconcile(cand, VendorOf(an_vendor, name), an_token)
                again == Reconcile(AsCandidate(an_result.items[i]),
                                   VendorOf(an_vendor, name), an_token)
            IN  /\ ~again.raised
                /\ FiveFields(again.item) = FiveFields(an_result.items[i])
                /\ first.lookups <= 1
                /\ first.lookups = 1 =>
                      /\ Missing(Get(cand.make)) = "true"
                      /\ format_mac_address(Get(cand.mac_address)).val # NA

\* one candidate a whose model is missing, reconciled into one item
ModelMissingInput ==
    /\ ItemsReturned
    /\ an_outcome.content \in {ArrayOf(<<"a">>), ObjectOf("a")}
    /\ Len(an_result.items) = 1
    /\ Missing(Get(an_cands["a"].model)) = "true"
\* the make of candidate a after the lookup (lines 300-306)
MakeLookedUp ==
    LET item_make == Get(an_cands["a"].make)
        mac_address == format_mac_address(Get(an_cands["a"].mac_address)).val
    IN  IF Missing(item_make) = "true" /\ mac_address # NA
        THEN MakeAfterLookup(item_make,
                 get_vendor_from_mac(mac_address.s, an_token, an_vendor["a"]).ret)
        ELSE item_make
\* the make of candidate a is set to "Dell" by the dp_n heuristic (308-310)
DellByHeuristic ==
    Missing(MakeLookedUp) = "true" /\ Present(Get(an_cands["a"].dp_n))

\* C14 as stated: with model and vpn missing, dp_n becomes the model only when
\* the dp_n heuristic set the make to "Dell", and the model is the sentinel
\* when the make is explicit or came from the lookup; a vpn that is present
\* becomes the model.
C14_DpnOnlyAfterHeuristic ==
    ModelMissingInput =>
        LET dp_n == Get(an_cands["a"].dp_n)
            vpn == Get(an_cands["a"].vpn)
        IN  IF Present(vpn)
            THEN an_result.items[1].model = Normalised(vpn).val
            ELSE an_result.items[1].model =
                     IF DellByHeuristic THEN Normalised(dp_n).val ELSE NA

\* C14 amended: with model and vpn missing, dp_n becomes the model exactly
\* when the make of the item is "Dell", wherever that make came from (the
\* candidate, the lookup or the dp_n heuristic), and dp_n is present;
\* otherwise the model is the sentinel; a vpn that is present becomes the model.
C14_DpnForDellMake ==
    ModelMissingInput =>
        LET dp_n == Get(an_cands["a"].dp_n)
            vpn == Get(an_cands["a"].vpn)
        IN  IF Present(vpn)
            THEN an_result.items[1].model = Normalised(vpn).val
            ELSE an_result.items[1].model =
                     IF an_result.items[1].make = PyStr(TxtDell) /\ Present(dp_n)
                     THEN Normalised(dp_n).val ELSE NA

\* the candidate names the make "Dell" itself, and dp_n became the model
C14_Witness ==
    /\ ModelMissingInput
    /\ an_cands["a"].make = PyStr(TxtDell)
    /\ ~Present(Get(an_cands["a"].vpn))
    /\ an_cands["a"].dp_n = PyStr(TxtDpn)
    /\ an_result.items[1].model = PyStr(TxtDpn)

----------------------------------------------------------------------------
(* Properties of the parser (SpecAnalyze) *)

TextReturned == an_image /\ an_result.state = "returned" /\ an_outcome.kind = "text"
BothFound(c, open, close) == Find(c, open) # -1 /\ RFind(c, close) # -1
\* the span from the first { to the last }
ObjectSpan(c) == Slice(c, Find(c, "{"), RFind(c, "}") + 1)
\* the span is one well-formed object, whose candidate reconciles
WellFormedObject(c) ==
    /\ BothFound(c, "{", "}")
    /\ JsonLoads(ObjectSpan(c)).ok
    /\ JsonLoads(ObjectSpan(c)).v.t = "dict"
    /\ ~Reconcile(CandidateOf(an_cands, JsonLoads(ObjectSpan(c)).v.name),
                  VendorOf(an_vendor, JsonLoads(ObjectSpan(c)).v.name),
                  an_token).raised

\* C15: when the text lacks [ or lacks ], the array decode is not attempted:
\* a well-formed object between the first { and the last } gives exactly one
\* item and no ErrorRecord, and a text that lacks { or } gives the format
\* error record.
C15_FallbackUnlessBothFound ==
    (TextReturned /\ ~BothFound(an_outcome.content, "[", "]")) =>
        /\ WellFormedObject(an_outcome.content) =>
              /\ Len(an_result.items) = 1
              /\ ~IsErrorRecord(an_result.items[1])
        /\ ~BothFound(an_outcome.content, "{", "}") =>
              an_result.items = <<ErrorWithRaw(TxtFormatError, an_outcome.content)>>

----------------------------------------------------------------------------
(* The endings of the handler (Spec) *)

ThreeEndings == {"full_success", "partial_success", "total_failure"}
FallbackEndings == {"no_information", "no_valid_item_data", "no_image_attachments"}
\* the entries that are not flagged as errors
UnflaggedEntries(e) ==
    SelectSeq(Indexes(entries[e]), LAMBDA j : ~entries[e][j].is_error_entry)

\* what C16 says of an event whose handler did not stop on an exception
EndingsOf(e) ==
    /\ status[e] \notin FallbackEndings
    /\ Ended(e) => status[e] \in ThreeEndings
    /\ Len(entries[e]) >= Len(facts[e])
    /\ Summarised(e) =>
          /\ [i \in 1..Len(attempts[e]) |-> attempts[e][i].entry] = UnflaggedEntries(e)
          /\ saves[e] = SavedRows(e)
          /\ (\E i \in 1..Len(attempts[e]) : ~attempts[e][i].ok) => had_errors[e]

\* C16: for an event with a client name and an image attachment, every image
\* processed adds at least one entry, every entry not flagged as an error
\* gets one append that is counted as a save or flagged as a failure, and the
\* handler ends in full success, partial success or total failure, never in
\* one of its fallback branches and never without a status.
C16_ThreeEndingsOnly ==
    \A e \in live :
        (Handled(e) /\ WithImage(e) /\ pc[e] # "arrived") =>
            /\ pc[e] # "crashed"
            /\ EndingsOf(e)

====
